---- MODULE Spec2Model ----
(***************************************************************************)
(* K-means colour quantisation (src/main.rs): KMeans::new, KMeans::run,    *)
(* KMeans::update_centroids, reconstruct_image, closest_centroid_index     *)
(* and the part of main that drives them.                                  *)
(*                                                                         *)
(* Numbers.  A Pixel channel is a u8.  A Centroid channel is an f64 that   *)
(* is always a quotient (sum of u8 values) / count; a Centroid is kept as  *)
(* the three numerators r, g, b over one common denominator d, reduced to  *)
(* lowest terms, so that equal f64 triples are equal records.  Distances   *)
(* are kept as the exact quotient n/d under the square root; sqrt is       *)
(* monotone, so `<` on distances is `<` on those quotients.  Floating      *)
(* point rounding is not modelled.                                         *)
(*                                                                         *)
(* Indices.  Vec indices of the source are 0-based and are kept 0-based    *)
(* as VALUES (assignments, closest_centroid); element j of a Vec is        *)
(* element j + 1 of the sequence that models it.                           *)
(***************************************************************************)
EXTENDS Integers, Sequences, FiniteSets, Bags, TLC

VARIABLES
    pixels,           \* main: Vec<Pixel> read from the input image
    k,                \* main: args.k
    pc,               \* position of the main thread
    initial,          \* KMeans::new: the centroids as built from the drawn samples
    centroids,        \* KMeans.centroids (self.centroids)
    snapshot,         \* run: local `centroids`, the clone taken at the top of a round
    prev_centroids,   \* run: local `prev_centroids`
    assignments,      \* run: local `assignments`
    assigned,         \* samples whose assignment closure has returned this round
    rounds,           \* rounds (loop bodies) started so far
    pixel_groups,     \* update_centroids: contents of the K Mutex<Vec<Pixel>>
    mutex,            \* update_centroids: holder of each Mutex (0 = unlocked)
    gpc,              \* position of each grouping closure
    guard,            \* what each grouping closure sees through its MutexGuard
    outcome,          \* how the loop of run was left
    img,              \* reconstruct_image: the output pixels, row-major
    saved             \* main: output_img.save succeeded

vars == <<pixels, k, pc, initial, centroids, snapshot, prev_centroids, assignments,
          assigned, rounds, pixel_groups, mutex, gpc, guard, outcome, img, saved>>

(***************************************************************************)
(* Bounds of the model and program constants                               *)
(***************************************************************************)
MaxN == 3
MaxK == 3
max_iterations == 100
ThresholdDen == 100000

Px(r0, g0, b0) == [r |-> r0, g |-> g0, b |-> b0]

\* colours the input images are built from
Palette == << Px(0, 0, 0), Px(120, 160, 0), Px(120, 160, 100) >>

\* the input images: up to MaxN pixels of the palette.  Permuting the pixels
\* of an image only renames the sample indices, so one arrangement of every
\* multiset of colours is taken, the one in palette order.
Images ==
    UNION { { [i \in 1..n |-> Palette[f[i]]] :
                f \in { h \in [1..n -> 1..Len(Palette)] :
                          \A i \in 1..n : \A m \in 1..n : i <= m => h[i] <= h[m] } } :
            n \in 0..MaxN }

\* the 2x2 image of the end-to-end scenario
E2EImage == << Px(255, 0, 0), Px(0, 255, 0), Px(0, 0, 255), Px(255, 255, 255) >>

(***************************************************************************)
(* Arithmetic helpers                                                      *)
(***************************************************************************)
Abs(x) == IF x < 0 THEN -x ELSE x

RECURSIVE GCD(_, _)
GCD(a, b) == IF b = 0 THEN a ELSE GCD(b, a % b)

\* the f64 triple (sr/cnt, sg/cnt, sb/cnt), cnt > 0
MkCentroid(sr, sg, sb, cnt) ==
    LET g0 == GCD(GCD(sr, sg), GCD(sb, cnt))
    IN  [r |-> sr \div g0, g |-> sg \div g0, b |-> sb \div g0, d |-> cnt \div g0]

\* FromPixel with the g channel copied into r
FromPixel_gg(pixel) == [r |-> pixel.g, g |-> pixel.g, b |-> pixel.b, d |-> 1]

\* Centroid { r: pixel.r as f64, ... }
FromPixel(pixel) == [r |-> pixel.r, g |-> pixel.g, b |-> pixel.b, d |-> 1]

ZeroCentroid == [r |-> 0, g |-> 0, b |-> 0, d |-> 1]

\* f64::MAX: larger than every distance
F64Max == [n |-> 1, d |-> 0]

\* Pixel::distance: sqrt(n / d)
distance(pixel, centroid) ==
    [n |-> (pixel.r * centroid.d - centroid.r) * (pixel.r * centroid.d - centroid.r)
         + (pixel.g * centroid.d - centroid.g) * (pixel.g * centroid.d - centroid.g)
         + (pixel.b * centroid.d - centroid.b) * (pixel.b * centroid.d - centroid.b),
     d |-> centroid.d * centroid.d]

\* x < y on two distances
Less(x, y) == x.n * y.d < y.n * x.d

\* is_close that compares the r and g channels only
is_close_rg(a, b) ==
    /\ ThresholdDen * Abs(a.r * b.d - b.r * a.d) < a.d * b.d
    /\ ThresholdDen * Abs(a.g * b.d - b.g * a.d) < a.d * b.d

\* Centroid::is_close
is_close(a, b) ==
    /\ ThresholdDen * Abs(a.r * b.d - b.r * a.d) < a.d * b.d
    /\ ThresholdDen * Abs(a.g * b.d - b.g * a.d) < a.d * b.d
    /\ ThresholdDen * Abs(a.b * b.d - b.b * a.d) < a.d * b.d

\* AsU8 rounding to the nearest integer instead of truncating
AsU8_round(n, d) ==
    IF n < 0 THEN 0 ELSE IF (2 * n + d) \div (2 * d) > 255 THEN 255 ELSE (2 * n + d) \div (2 * d)

\* `x as u8` for an f64 x = n/d: truncation toward zero, saturating
AsU8(n, d) == IF n < 0 THEN 0 ELSE IF n \div d > 255 THEN 255 ELSE n \div d

(***************************************************************************)
(* Pure functions of the source                                            *)
(***************************************************************************)
\* ClosestLoop that also replaces the recorded centroid on an equal distance
RECURSIVE ClosestLoop_lesseq(_, _, _, _, _)
ClosestLoop_lesseq(pixel, cs, j, min_distance, closest_centroid) ==
    IF j >= Len(cs) THEN closest_centroid
    ELSE LET dist == distance(pixel, cs[j + 1])
         IN  IF ~Less(min_distance, dist)
             THEN ClosestLoop_lesseq(pixel, cs, j + 1, dist, j)
             ELSE ClosestLoop_lesseq(pixel, cs, j + 1, min_distance, closest_centroid)

\* ClosestLoop recording the 1-based position instead of the 0-based index
RECURSIVE ClosestLoop_onebased(_, _, _, _, _)
ClosestLoop_onebased(pixel, cs, j, min_distance, closest_centroid) ==
    IF j >= Len(cs) THEN closest_centroid
    ELSE LET dist == distance(pixel, cs[j + 1])
         IN  IF Less(dist, min_distance)
             THEN ClosestLoop_onebased(pixel, cs, j + 1, dist, j + 1)
             ELSE ClosestLoop_onebased(pixel, cs, j + 1, min_distance, closest_centroid)

\* run, lines 82-93: the loop over centroids.iter().enumerate(); j is the
\* 0-based index of the centroid examined next
RECURSIVE ClosestLoop(_, _, _, _, _)
ClosestLoop(pixel, cs, j, min_distance, closest_centroid) ==
    IF j >= Len(cs) THEN closest_centroid
    ELSE LET dist == distance(pixel, cs[j + 1])
         IN  IF Less(dist, min_distance)
             THEN ClosestLoop(pixel, cs, j + 1, dist, j)
             ELSE ClosestLoop(pixel, cs, j + 1, min_distance, closest_centroid)

\* the body of the assignment closure for one pixel
closest_in_run(pixel, cs) == ClosestLoop(pixel, cs, 0, F64Max, 0)

\* MinByLoop keeping the last of several equal minima
RECURSIVE MinByLoop_last(_, _, _, _)
MinByLoop_last(pixel, cs, j, best) ==
    IF j >= Len(cs) THEN best
    ELSE IF ~Less(distance(pixel, cs[best + 1]), distance(pixel, cs[j + 1]))
         THEN MinByLoop_last(pixel, cs, j + 1, j)
         ELSE MinByLoop_last(pixel, cs, j + 1, best)

\* Iterator::min_by: a left-to-right reduction that replaces the element kept
\* so far only when the comparison says Greater, so the first minimum wins
RECURSIVE MinByLoop(_, _, _, _)
MinByLoop(pixel, cs, j, best) ==
    IF j >= Len(cs) THEN best
    ELSE IF Less(distance(pixel, cs[j + 1]), distance(pixel, cs[best + 1]))
         THEN MinByLoop(pixel, cs, j + 1, j)
         ELSE MinByLoop(pixel, cs, j + 1, best)

\* closest_centroid_index, with unwrap_or(0) for no centroids
closest_centroid_index(pixel, cs) ==
    IF Len(cs) = 0 THEN 0 ELSE MinByLoop(pixel, cs, 1, 0)

\* FoldGroup that overwrites the r sum with the sample's r instead of adding it
RECURSIVE FoldGroup_assign(_, _, _)
FoldGroup_assign(group, i, acc) ==
    IF i > Len(group) THEN acc
    ELSE FoldGroup_assign(group, i + 1,
                   [r |-> group[i].r, g |-> acc.g + group[i].g,
                    b |-> acc.b + group[i].b, count |-> acc.count + 1])

\* FoldGroup adding the g channel into the r sum
RECURSIVE FoldGroup_rg(_, _, _)
FoldGroup_rg(group, i, acc) ==
    IF i > Len(group) THEN acc
    ELSE FoldGroup_rg(group, i + 1,
                      [r |-> acc.r + group[i].g, g |-> acc.g + group[i].g,
                       b |-> acc.b + group[i].b, count |-> acc.count + 1])

\* update_centroids, lines 118-120: the fold over one group
RECURSIVE FoldGroup(_, _, _)
FoldGroup(group, i, acc) ==
    IF i > Len(group) THEN acc
    ELSE FoldGroup(group, i + 1,
                   [r |-> acc.r + group[i].r, g |-> acc.g + group[i].g,
                    b |-> acc.b + group[i].b, count |-> acc.count + 1])

\* NewCentroid storing the channel sums without dividing by the count
NewCentroid_nodiv(group) ==
    LET s == FoldGroup(group, 1, [r |-> 0, g |-> 0, b |-> 0, count |-> 0])
    IN  IF s.count > 0 THEN MkCentroid(s.r, s.g, s.b, 1)
        ELSE ZeroCentroid

\* NewCentroid testing count > 1
NewCentroid_offbyone(group) ==
    LET s == FoldGroup(group, 1, [r |-> 0, g |-> 0, b |-> 0, count |-> 0])
    IN  IF s.count > 1 THEN MkCentroid(s.r, s.g, s.b, s.count)
        ELSE ZeroCentroid

\* update_centroids, lines 116-131: the new centroid of one group
NewCentroid(group) ==
    LET s == FoldGroup(group, 1, [r |-> 0, g |-> 0, b |-> 0, count |-> 0])
    IN  IF s.count > 0 THEN MkCentroid(s.r, s.g, s.b, s.count)
        ELSE ZeroCentroid

\* AllClose comparing the new centroids with themselves
AllClose_self(new, prev) ==
    \A j \in 1..(IF Len(new) < Len(prev) THEN Len(new) ELSE Len(prev)) :
        is_close(new[j], new[j])

\* AllClose with any() in place of all()
AllClose_any(new, prev) ==
    \E j \in 1..(IF Len(new) < Len(prev) THEN Len(new) ELSE Len(prev)) :
        is_close(new[j], prev[j])

\* run, line 98: zip(...).all(is_close)
AllClose(new, prev) ==
    \A j \in 1..(IF Len(new) < Len(prev) THEN Len(new) ELSE Len(prev)) :
        is_close(new[j], prev[j])

\* reconstruct_image, lines 166-171, for one pixel
OutputPixel(pixel, cs) ==
    LET centroid == cs[closest_centroid_index(pixel, cs) + 1]
    IN  Px(AsU8(centroid.r, centroid.d), AsU8(centroid.g, centroid.d),
           AsU8(centroid.b, centroid.d))

\* UniformFromPanics for a range constructor that accepts an empty range
UniformFromPanics_never(n) == FALSE

\* Uniform::from(0..n) panics on an empty range
UniformFromPanics(n) == n = 0

\* CanLock for a lock that never blocks
CanLock_always(j) == TRUE

\* Mutex::lock returns only while no other closure holds the guard
CanLock(j) == mutex[j] = 0

(***************************************************************************)
(* Initial states: main has parsed the arguments and read the pixels       *)
(***************************************************************************)
InitWith(image, kk) ==
    /\ pixels = image
    /\ k = kk
    /\ pc = "new"
    /\ initial = << >>
    /\ centroids = << >>
    /\ snapshot = << >>
    /\ prev_centroids = << >>
    /\ assignments = << >>
    /\ assigned = {}
    /\ rounds = 0
    /\ pixel_groups = << >>
    /\ mutex = << >>
    /\ gpc = << >>
    /\ guard = << >>
    /\ outcome = "Running"
    /\ img = << >>
    /\ saved = FALSE

Init == \E image \in Images : \E kk \in 0..MaxK : InitWith(image, kk)

InitE2E == InitWith(E2EImage, 4)

N == Len(pixels)

(***************************************************************************)
(* KMeans::new                                                             *)
(***************************************************************************)
\* line 59: the range is empty
NewPanic ==
    /\ pc = "new"
    /\ UniformFromPanics(N)
    /\ pc' = "panic_range"
    /\ UNCHANGED <<pixels, k, initial, centroids, snapshot, prev_centroids, assignments,
                   assigned, rounds, pixel_groups, mutex, gpc, guard, outcome, img, saved>>

\* lines 59-71: k draws from 0..N, with replacement
New ==
    /\ pc = "new"
    /\ ~UniformFromPanics(N)
    /\ \E ds \in [1..k -> 0..(N - 1)] :
          centroids' = [j \in 1..k |-> FromPixel(pixels[ds[j] + 1])]
    /\ initial' = centroids'
    /\ pc' = "run"
    /\ UNCHANGED <<pixels, k, snapshot, prev_centroids, assignments,
                   assigned, rounds, pixel_groups, mutex, gpc, guard, outcome, img, saved>>

(***************************************************************************)
(* KMeans::run                                                             *)
(***************************************************************************)
\* the head of `for _ in 0..max_iterations` (lines 77-78) after `done` rounds
LoopHead(done) ==
    IF done < max_iterations
    THEN /\ pc' = "assign"
         /\ rounds' = done + 1
         /\ snapshot' = centroids
         /\ assigned' = {}
         /\ outcome' = outcome
    ELSE /\ pc' = "reconstruct"
         /\ rounds' = done
         /\ snapshot' = snapshot
         /\ assigned' = {}
         /\ outcome' = "IterationCapReached"

\* line 75, then the head of the loop
RunStart ==
    /\ pc = "run"
    /\ assignments' = [i \in 1..N |-> 0]
    /\ LoopHead(0)
    /\ UNCHANGED <<pixels, k, initial, centroids, prev_centroids,
                   pixel_groups, mutex, gpc, guard, img, saved>>

\* Assign with min_distance and closest_centroid declared outside the closure:
\* a closure starts from the values left by a closure that ran before it
Assign_shared(i) ==
    /\ pc = "assign"
    /\ i \notin assigned
    /\ IF assigned = {} \/ Len(snapshot) = 0
       THEN assignments' = [assignments EXCEPT ![i] = ClosestLoop(pixels[i], snapshot, 0, F64Max, 0)]
       ELSE \E m \in assigned :
               assignments' = [assignments EXCEPT ![i] =
                   ClosestLoop(pixels[i], snapshot, 0,
                               distance(pixels[m], snapshot[assignments[m] + 1]),
                               assignments[m])]
    /\ assigned' = assigned \cup {i}
    /\ UNCHANGED <<pixels, k, pc, initial, centroids, snapshot, prev_centroids, rounds,
                   pixel_groups, mutex, gpc, guard, outcome, img, saved>>

\* lines 80-94: the closure of par_iter_mut for sample i
Assign(i) ==
    /\ pc = "assign"
    /\ i \notin assigned
    /\ assignments' = [assignments EXCEPT ![i] = closest_in_run(pixels[i], snapshot)]
    /\ assigned' = assigned \cup {i}
    /\ UNCHANGED <<pixels, k, pc, initial, centroids, snapshot, prev_centroids, rounds,
                   pixel_groups, mutex, gpc, guard, outcome, img, saved>>

\* AssignJoin that does not wait for the assignment closures
AssignJoin_early ==
    /\ pc = "assign"
    /\ prev_centroids' = centroids
    /\ pixel_groups' = [j \in 1..Len(centroids) |-> << >>]
    /\ mutex' = [j \in 1..Len(centroids) |-> 0]
    /\ gpc' = [i \in 1..N |-> "start"]
    /\ guard' = [i \in 1..N |-> << >>]
    /\ pc' = "group"
    /\ UNCHANGED <<pixels, k, initial, centroids, snapshot, assignments, assigned, rounds,
                   outcome, img, saved>>

\* for_each returns once every closure has; line 95; update_centroids lines 105-109
AssignJoin ==
    /\ pc = "assign"
    /\ assigned = 1..N
    /\ prev_centroids' = centroids
    /\ pixel_groups' = [j \in 1..Len(centroids) |-> << >>]
    /\ mutex' = [j \in 1..Len(centroids) |-> 0]
    /\ gpc' = [i \in 1..N |-> "start"]
    /\ guard' = [i \in 1..N |-> << >>]
    /\ pc' = "group"
    /\ UNCHANGED <<pixels, k, initial, centroids, snapshot, assignments, assigned, rounds,
                   outcome, img, saved>>

(***************************************************************************)
(* KMeans::update_centroids                                                *)
(***************************************************************************)
\* the group sample i is filed under (1-based position in pixel_groups)
GroupOf(i) == assignments[i] + 1

\* line 112: pixel_groups[assignment] is out of bounds
GroupIndexPanic(i) ==
    /\ pc = "group"
    /\ gpc[i] = "start"
    /\ assignments[i] >= Len(pixel_groups)
    /\ pc' = "panic_index"
    /\ UNCHANGED <<pixels, k, initial, centroids, snapshot, prev_centroids, assignments,
                   assigned, rounds, pixel_groups, mutex, gpc, guard, outcome, img, saved>>

\* line 112: lock() returns the guard of the group
GroupLock(i) ==
    /\ pc = "group"
    /\ gpc[i] = "start"
    /\ assignments[i] < Len(pixel_groups)
    /\ CanLock(GroupOf(i))
    /\ mutex' = [mutex EXCEPT ![GroupOf(i)] = i]
    /\ guard' = [guard EXCEPT ![i] = pixel_groups[GroupOf(i)]]
    /\ gpc' = [gpc EXCEPT ![i] = "locked"]
    /\ UNCHANGED <<pixels, k, pc, initial, centroids, snapshot, prev_centroids, assignments,
                   assigned, rounds, pixel_groups, outcome, img, saved>>

\* line 113: group.push(*pixel)
GroupPush(i) ==
    /\ pc = "group"
    /\ gpc[i] = "locked"
    /\ pixel_groups' = [pixel_groups EXCEPT ![GroupOf(i)] = Append(guard[i], pixels[i])]
    /\ guard' = [guard EXCEPT ![i] = << >>]
    /\ gpc' = [gpc EXCEPT ![i] = "pushed"]
    /\ UNCHANGED <<pixels, k, pc, initial, centroids, snapshot, prev_centroids, assignments,
                   assigned, rounds, mutex, outcome, img, saved>>

\* line 114: the guard is dropped at the end of the closure
GroupUnlock(i) ==
    /\ pc = "group"
    /\ gpc[i] = "pushed"
    /\ mutex' = [mutex EXCEPT ![GroupOf(i)] = 0]
    /\ gpc' = [gpc EXCEPT ![i] = "done"]
    /\ UNCHANGED <<pixels, k, pc, initial, centroids, snapshot, prev_centroids, assignments,
                   assigned, rounds, pixel_groups, guard, outcome, img, saved>>

\* every grouping closure has returned
GroupingFinished == \A i \in 1..N : gpc[i] = "done"

\* UpdateCentroids that computes the new centroids and does not store them
UpdateCentroids_nostore ==
    /\ pc = "group"
    /\ GroupingFinished
    /\ centroids' = centroids
    /\ pc' = "check"
    /\ UNCHANGED <<pixels, k, initial, snapshot, prev_centroids, assignments,
                   assigned, rounds, pixel_groups, mutex, gpc, guard, outcome, img, saved>>

\* lines 116-133, after for_each has returned
UpdateCentroids ==
    /\ pc = "group"
    /\ GroupingFinished
    /\ centroids' = [j \in 1..Len(pixel_groups) |-> NewCentroid(pixel_groups[j])]
    /\ pc' = "check"
    /\ UNCHANGED <<pixels, k, initial, snapshot, prev_centroids, assignments,
                   assigned, rounds, pixel_groups, mutex, gpc, guard, outcome, img, saved>>

\* run, lines 98-100, then the head of the loop
Check ==
    /\ pc = "check"
    /\ IF AllClose(centroids, prev_centroids)
       THEN /\ outcome' = "Converged"
            /\ pc' = "reconstruct"
            /\ UNCHANGED <<rounds, snapshot, assigned>>
       ELSE LoopHead(rounds)
    /\ pixel_groups' = << >>
    /\ mutex' = << >>
    /\ gpc' = << >>
    /\ guard' = << >>
    /\ UNCHANGED <<pixels, k, initial, centroids, prev_centroids, assignments, img, saved>>

(***************************************************************************)
(* main after run: reconstruct_image and save                              *)
(***************************************************************************)
\* lines 157, 162-175
Reconstruct ==
    /\ pc = "reconstruct"
    /\ IF N > 0 /\ Len(centroids) = 0
       THEN pc' = "panic_index" /\ img' = img
       ELSE /\ img' = [i \in 1..N |-> OutputPixel(pixels[i], centroids)]
            /\ pc' = "save"
    /\ UNCHANGED <<pixels, k, initial, centroids, snapshot, prev_centroids, assignments,
                   assigned, rounds, pixel_groups, mutex, gpc, guard, outcome, saved>>

\* line 159: the file is written
Save ==
    /\ pc = "save"
    /\ saved' = TRUE
    /\ pc' = "done"
    /\ UNCHANGED <<pixels, k, initial, centroids, snapshot, prev_centroids, assignments,
                   assigned, rounds, pixel_groups, mutex, gpc, guard, outcome, img>>

\* line 159: save returns Err and expect panics
SaveFail ==
    /\ pc = "save"
    /\ pc' = "panic_save"
    /\ UNCHANGED <<pixels, k, initial, centroids, snapshot, prev_centroids, assignments,
                   assigned, rounds, pixel_groups, mutex, gpc, guard, outcome, img, saved>>

(***************************************************************************)
(* Specifications                                                          *)
(***************************************************************************)
Clustering ==
    \/ New
    \/ RunStart
    \/ \E i \in 1..N : Assign(i)
    \/ AssignJoin
    \/ \E i \in 1..N : GroupLock(i)
    \/ \E i \in 1..N : GroupPush(i)
    \/ \E i \in 1..N : GroupUnlock(i)
    \/ UpdateCentroids
    \/ Check
    \/ Reconstruct
    \/ Save
    \/ SaveFail

Next ==
    \/ NewPanic
    \/ \E i \in 1..N : GroupIndexPanic(i)
    \/ Clustering

Spec == Init /\ [][Next]_vars

\* the end-to-end scenario: the 2x2 image with K = 4
SpecE2E == InitE2E /\ [][Clustering]_vars

(***************************************************************************)
(* Properties                                                              *)
(***************************************************************************)
Panicked == pc \in {"panic_range", "panic_index", "panic_save"}

\* run has returned
RunReturned == pc \in {"reconstruct", "save", "done", "panic_save"}

\* every index-matched pair of new and previous centroids is close
PairsClose ==
    /\ Len(centroids) = Len(prev_centroids)
    /\ \A j \in 1..Len(centroids) : is_close(centroids[j], prev_centroids[j])

\* the main thread has returned or panicked
Terminated == pc = "done" \/ Panicked

\* steps a grouping closure has taken
GStep(i) == CASE gpc[i] = "start" -> 0 [] gpc[i] = "locked" -> 1
              [] gpc[i] = "pushed" -> 2 [] gpc[i] = "done" -> 3

RECURSIVE SumGStep(_)
SumGStep(i) == IF i > Len(gpc) THEN 0 ELSE GStep(i) + SumGStep(i + 1)

\* positions inside one round: N assignment closures, the join, 3 steps of
\* each of N grouping closures, update_centroids
RoundSpan == 4 * N + 3

\* a measure of how far the program has run
Progress ==
    CASE pc = "new" -> 0
      [] pc = "run" -> 1
      [] pc = "assign" -> rounds * RoundSpan + Cardinality(assigned)
      [] pc = "group" -> rounds * RoundSpan + N + 1 + SumGStep(1)
      [] pc = "check" -> rounds * RoundSpan + 4 * N + 2
      [] pc = "reconstruct" -> (max_iterations + 1) * RoundSpan
      [] pc = "save" -> (max_iterations + 1) * RoundSpan + 1
      [] OTHER -> (max_iterations + 1) * RoundSpan + 2

C2_AssignmentValid ==
    (k >= 1 /\ N >= 1) =>
        /\ pc \in {"assign", "group", "check"} =>
              \A i \in 1..N : assignments[i] \in 0..(k - 1)
        /\ pc = "group" => Len(pixel_groups) = k
        /\ pc # "panic_index"

C2_Witness ==
    /\ pc = "group"
    /\ k >= 2
    /\ \E i \in 1..N : assignments[i] = k - 1
    /\ \E i \in 1..N : assignments[i] = 0

\* number of positions of seq that hold x
CountIn(seq, x) == Cardinality({p \in DOMAIN seq : seq[p] = x})

RECURSIVE SumLen(_, _)
SumLen(groups, j) == IF j > Len(groups) THEN 0 ELSE Len(groups[j]) + SumLen(groups, j + 1)

\* C3: once every grouping closure has returned, each group holds exactly
\* the samples assigned to its index, each once, and the group sizes sum to
\* N, whatever the interleaving of the closures was.
C3_Coverage ==
    ((pc = "group" /\ GroupingFinished) \/ pc = "check") =>
        /\ SumLen(pixel_groups, 1) = N
        /\ \A j \in 1..Len(pixel_groups) :
              \A c \in {pixels[i] : i \in 1..N} \cup {pixel_groups[j][p] : p \in DOMAIN pixel_groups[j]} :
                 CountIn(pixel_groups[j], c)
                    = Cardinality({i \in 1..N : assignments[i] = j - 1 /\ pixels[i] = c})

C3_Witness ==
    /\ pc = "group"
    /\ GroupingFinished
    /\ N >= 3
    /\ \E j \in 1..Len(pixel_groups) : Len(pixel_groups[j]) >= 2
    /\ \E j \in 1..Len(pixel_groups) : Len(pixel_groups[j]) = 1

\* C4: with K = 0 or K > N the program fails before the initializer draws a
\* sample and before a clustering round starts, and writes no output image.
C4_ConfigFailsFast ==
    (k = 0 \/ k > N) =>
        /\ initial = << >>
        /\ rounds = 0
        /\ ~saved

Injective(seq) == \A a \in DOMAIN seq : \A b \in DOMAIN seq : a # b => seq[a] # seq[b]

\* main has the output image
Reconstructed == pc \in {"save", "done", "panic_save"}

\* the final centroids are the 4 colours, every cluster holds one sample and
\* the output equals the input
E2EExact ==
    /\ {centroids[j] : j \in 1..Len(centroids)} = {FromPixel(E2EImage[i]) : i \in 1..4}
    /\ Injective(assignments)
    /\ img = pixels

\* C5 as stated: for every choice of the 4 initial centroids the run on the
\* 2x2 image with K = 4 ends with exactly the 4 colours and an output equal
\* to the input.
C5_AnyDraws ==
    (pixels = E2EImage /\ k = 4 /\ Reconstructed) => E2EExact

\* C5, amended: the run on the 2x2 image with K = 4 ends with exactly the 4
\* colours, one sample per cluster and an output equal to the input when the
\* 4 draws are pairwise distinct; when a sample is drawn twice the output
\* differs from the input.
C5_DistinctDraws ==
    (pixels = E2EImage /\ k = 4 /\ Reconstructed) =>
        /\ Injective(initial) => E2EExact
        /\ ~Injective(initial) => img # pixels

C5_Witness ==
    /\ pixels = E2EImage /\ k = 4
    /\ pc = "done" /\ saved
    /\ Injective(initial)
    /\ rounds = 1
    /\ E2EExact

\* sum of channel ch over the samples with index in I
RECURSIVE SumChan(_, _)
SumChan(I, ch) ==
    IF I = {} THEN 0
    ELSE LET i == CHOOSE x \in I : TRUE IN pixels[i][ch] + SumChan(I \ {i}, ch)

\* centroid c is the exact per-channel mean of the samples with index in I
IsMeanOf(c, I) ==
    /\ c.d > 0
    /\ \A ch \in {"r", "g", "b"} : c[ch] * Cardinality(I) = SumChan(I, ch) * c.d

\* the centroid of the only cluster is the mean of all samples from the end
\* of the first aggregation on
K1MeanAfterRoundOne ==
    (pc = "check" \/ rounds >= 2 \/ outcome # "Running") => IsMeanOf(centroids[1], 1..N)

IsLowestNearest(pixel, cs, j) ==
    /\ j \in 0..(Len(cs) - 1)
    /\ \A m \in 0..(Len(cs) - 1) :
          /\ ~Less(distance(pixel, cs[m + 1]), distance(pixel, cs[j + 1]))
          /\ m < j => Less(distance(pixel, cs[j + 1]), distance(pixel, cs[m + 1]))

\* t is the quotient n/d with its fraction dropped, as a u8
IsTruncation(t, n, d) == t \in 0..255 /\ t * d <= n /\ n < (t + 1) * d

\* C7: every output pixel is the channel-wise truncation of the centroid of
\* the final centroid set nearest to the sample, the lowest index on a tie.
C7_Reconstruction ==
    Reconstructed =>
        /\ Len(img) = N
        /\ \A i \in 1..N : \E j \in 0..(Len(centroids) - 1) :
              /\ IsLowestNearest(pixels[i], centroids, j)
              /\ IsTruncation(img[i].r, centroids[j + 1].r, centroids[j + 1].d)
              /\ IsTruncation(img[i].g, centroids[j + 1].g, centroids[j + 1].d)
              /\ IsTruncation(img[i].b, centroids[j + 1].b, centroids[j + 1].d)

\* an output pixel whose sample is equally near two different final centroids
C7_Witness ==
    /\ pc = "done"
    /\ \E i \in 1..N : \E j \in 0..(Len(centroids) - 1) : \E m \in 0..(Len(centroids) - 1) :
          /\ IsLowestNearest(pixels[i], centroids, j)
          /\ m > j
          /\ centroids[m + 1] # centroids[j + 1]
          /\ ~Less(distance(pixels[i], centroids[j + 1]), distance(pixels[i], centroids[m + 1]))

\* samples assigned to the 0-based cluster index j
Members(j) == {i \in 1..N : assignments[i] = j}

\* C8: after aggregation, the centroid of every cluster that received no
\* sample is (0,0,0), the centroid of every other cluster is the mean of its
\* samples, and the run goes on to the convergence check.
C8_EmptyClusterZero ==
    pc = "check" =>
        /\ Len(centroids) = k
        /\ \A j \in 1..k :
              IF Members(j - 1) = {}
              THEN centroids[j] = [r |-> 0, g |-> 0, b |-> 0, d |-> 1]
              ELSE IsMeanOf(centroids[j], Members(j - 1))
        /\ ENABLED Check

C8_Witness ==
    /\ pc = "check"
    /\ k >= 2
    /\ \E j \in 1..k : Members(j - 1) = {} /\ prev_centroids[j] # centroids[j]
    /\ \E j \in 1..k : Cardinality(Members(j - 1)) = 1
    /\ \E j \in 1..k : Cardinality(Members(j - 1)) >= 2

\* the assignment vector as a function of the centroids and the samples
AssignmentOf(cs, px) == [i \in 1..Len(px) |-> closest_in_run(px[i], cs)]

\* C9: the assignment vector is a function of the centroids of the round and
\* the samples only: every slot written holds that function's value whatever
\* closures have run before, and the complete vector is that function.
C9_AssignmentDeterministic ==
    /\ pc = "assign" =>
          \A i \in assigned : assignments[i] = AssignmentOf(snapshot, pixels)[i]
    /\ pc \in {"group", "check"} => assignments = AssignmentOf(snapshot, pixels)

C9_Witness ==
    /\ pc = "group"
    /\ N >= 3 /\ k >= 2
    /\ rounds >= 2
    /\ \E i \in 1..N : \E m \in 1..N : assignments[i] # assignments[m]

\* C10: with no samples the program panics in KMeans::new, for every K,
\* before a centroid is produced or a round starts, and writes no output.
C10_EmptyImageFails ==
    N = 0 =>
        /\ pc \in {"new", "panic_range"}
        /\ pc = "new" => (ENABLED NewPanic /\ ~ENABLED New)
        /\ initial = << >> /\ centroids = << >>
        /\ rounds = 0
        /\ img = << >> /\ ~saved

C10_Witness ==
    /\ N = 0
    /\ k >= 1
    /\ pc = "panic_range"

\* C11: with N >= 1, KMeans::new produces exactly K centroids, each with the
\* three channels of some sample of the input; equal centroids are kept, and
\* every sample can be drawn for all K centroids at once.
C11_Initializer ==
    N >= 1 =>
        /\ pc # "new" =>
              /\ Len(initial) = k
              /\ \A j \in 1..k : \E i \in 1..N :
                    initial[j] = [r |-> pixels[i].r, g |-> pixels[i].g, b |-> pixels[i].b, d |-> 1]
        /\ pc = "run" => centroids = initial
        /\ pc = "new" =>
              \A i \in 1..N :
                 ENABLED (New /\ centroids' =
                    [j \in 1..k |-> [r |-> pixels[i].r, g |-> pixels[i].g, b |-> pixels[i].b, d |-> 1]])

\* K = 3 centroids from two different samples, one of them drawn twice
C11_Witness ==
    /\ pc = "run"
    /\ k = 3
    /\ Len(centroids) = 3
    /\ \E a \in 1..3 : \E b \in 1..3 : a # b /\ centroids[a] = centroids[b]
    /\ \E a \in 1..3 : \E b \in 1..3 : centroids[a] # centroids[b]

\* the grouping closures that hold a guard: between lock() and the drop of the guard
InCritical(i) == gpc[i] \in {"locked", "pushed"}

\* C12 (state part): two closures inside the critical section always hold
\* different groups, and a closure inside it is the holder of its group's lock.
C12_Exclusive ==
    pc = "group" =>
        /\ \A i \in 1..N : InCritical(i) => mutex[GroupOf(i)] = i
        /\ \A i \in 1..N : \A m \in 1..N :
              (i # m /\ InCritical(i) /\ InCritical(m)) => GroupOf(i) # GroupOf(m)
        /\ \A j \in 1..Len(mutex) :
              mutex[j] # 0 => (mutex[j] \in 1..N /\ InCritical(mutex[j]) /\ GroupOf(mutex[j]) = j)

\* C12 (step part): a group only changes by the push of a closure that holds
\* that group's lock before and after the push, and the push appends to the
\* group as it is at that moment.
C12_PushUnderLock ==
    (pc = "group" /\ pixel_groups' # pixel_groups) =>
        \E i \in 1..N :
            /\ gpc[i] = "locked"
            /\ mutex[GroupOf(i)] = i
            /\ mutex'[GroupOf(i)] = i
            /\ pixel_groups' = [pixel_groups EXCEPT ![GroupOf(i)] = Append(@, pixels[i])]

\* C12: per-cluster mutual exclusion of the grouping step: never two closures
\* inside the critical section of the same cluster's group, and every push
\* happens while its closure holds the lock of that group.
C12_MutualExclusion == [](C12_Exclusive) /\ [][C12_PushUnderLock]_vars

\* two closures hold the locks of two different groups while a third one
\* waits for a group that is locked
C12_Witness ==
    /\ pc = "group"
    /\ \E i \in 1..N : \E m \in 1..N : \E w \in 1..N :
          /\ InCritical(i) /\ InCritical(m) /\ GroupOf(i) # GroupOf(m)
          /\ gpc[w] = "start"
          /\ assignments[w] < Len(pixel_groups)
          /\ mutex[GroupOf(w)] # 0

\* C13 (state part): while the aggregation step runs every assignment slot of
\* the round is written; while the assignment step runs no grouping closure
\* exists or all of the previous round's groups are gone, and the closures
\* read the complete centroid vector stored by the previous step.
C13_Phases ==
    /\ pc \in {"group", "check"} => assigned = 1..N
    /\ pc = "group" => (Len(gpc) = N /\ Len(pixel_groups) = Len(centroids))
    /\ pc = "assign" =>
          /\ snapshot = centroids
          /\ rounds >= 2 => (gpc = << >> /\ pixel_groups = << >> /\ mutex = << >>)
          /\ \A i \in 1..Len(gpc) : gpc[i] = "start"
    /\ (pc = "assign" /\ rounds >= 2) => Len(centroids) = k

\* C13 (step part): an assignment slot is only written in the assignment
\* step, a group only changes in the aggregation step, the centroids change
\* only when every grouping closure has returned, and a round's assignment
\* step begins only from the check of the previous round (or from the start
\* of run) with no slot written yet.
C13_Steps ==
    /\ assignments' # assignments => (pc \in {"run", "assign"} /\ pc' = "assign")
    /\ (pc = "assign" /\ pc' # "assign") => (assigned = 1..N /\ pc' = "group")
    /\ (pc = "group" /\ pc' = "check") =>
          /\ \A i \in 1..N : gpc[i] = "done"
          /\ \A j \in 1..Len(mutex) : mutex[j] = 0
          /\ Len(centroids') = Len(pixel_groups)
    /\ (centroids' # centroids /\ pc # "new") => (pc = "group" /\ pc' = "check")
    /\ (pc # "assign" /\ pc' = "assign") =>
          /\ pc \in {"run", "check"}
          /\ assigned' = {}
          /\ snapshot' = centroids
          /\ rounds' = rounds + 1

\* C13: iteration barrier: aggregation of a round starts only after all N
\* assignment slots of the round are written, the assignment of the next round
\* starts only after aggregation has produced all K new centroids, and no
\* closure of one step overlaps a closure of the next.
C13_Barrier == [](C13_Phases) /\ [][C13_Steps]_vars

\* second round, assignment step under way: some slots written, others not,
\* against centroids that the first aggregation changed
C13_Witness ==
    /\ pc = "assign"
    /\ rounds = 2
    /\ assigned # {}
    /\ assigned # 1..N
    /\ centroids # initial

\* the two distances are equal as quotients
SameDistance(x, y) == ~Less(x, y) /\ ~Less(y, x)

\* C14: each written assignment slot holds the index of a centroid of the
\* round's snapshot at minimum distance from the sample, the lowest such index
\* on an exact tie (coinciding centroids included); the snapshot is the
\* centroid vector as it was at the start of the round. The slots are read
\* during the assignment step and once aggregation is over; no step of the
\* aggregation writes them.
C14_TieBreak ==
    /\ pc \in {"assign", "check"} =>
          \A i \in (IF pc = "assign" THEN assigned ELSE 1..N) :
             IF Len(snapshot) = 0
             THEN assignments[i] = 0
             ELSE IsLowestNearest(pixels[i], snapshot, assignments[i])
    /\ pc \in {"group", "check"} => snapshot = prev_centroids
    /\ pc \in {"assign", "group"} => snapshot = centroids
    /\ (pc \in {"assign", "group", "check"} /\ rounds = 1) => snapshot = initial

\* a sample exactly as far from a later, different centroid as from the one
\* it is assigned to
C14_Witness ==
    /\ pc = "check"
    /\ \E i \in 1..N : \E m \in 0..(Len(snapshot) - 1) :
          /\ m > assignments[i]
          /\ snapshot[m + 1] # snapshot[assignments[i] + 1]
          /\ SameDistance(distance(pixels[i], snapshot[m + 1]),
                          distance(pixels[i], snapshot[assignments[i] + 1]))

\* C15 (step part): the step after an aggregation is the comparison of the new
\* with the previous centroids; it stops the loop as Converged exactly when
\* every index-matched pair is close, and otherwise starts another round while
\* fewer than max_iterations rounds have run.
C15_CheckStep ==
    /\ (pc = "group" /\ pc' \notin {"group", "panic_index"}) => pc' = "check"
    /\ pc = "check" =>
          IF PairsClose
          THEN outcome' = "Converged" /\ pc' = "reconstruct" /\ rounds' = rounds
          ELSE IF rounds < max_iterations
               THEN outcome' = "Running" /\ pc' = "assign" /\ rounds' = rounds + 1
               ELSE outcome' = "IterationCapReached" /\ pc' = "reconstruct"
    /\ outcome' # outcome => pc = "check"
    /\ (pc = "check" /\ pc' = "reconstruct" /\ rounds < max_iterations) => PairsClose

\* C15: stop condition: after each aggregation the new and the previous
\* centroids are compared by index; the loop stops early as Converged if and
\* only if all K pairs are close (every channel differs by less than the
\* threshold); with a pair that is not close and fewer than 100 rounds run,
\* another round is run.
C15_StopCondition ==
    /\ [][C15_CheckStep]_vars
    /\ [](outcome = "Converged" => (PairsClose /\ Len(centroids) = k))

\* the comparison is about to be made with one pair close and another not
C15_Witness ==
    /\ pc = "check"
    /\ k >= 2
    /\ Len(centroids) = k
    /\ \E j \in 1..k : is_close(centroids[j], prev_centroids[j])
    /\ \E j \in 1..k : ~is_close(centroids[j], prev_centroids[j])
    /\ rounds < max_iterations

\* the sum of channel ch over the samples of group from position i on
RECURSIVE GroupSum(_, _, _)
GroupSum(group, i, ch) == IF i > Len(group) THEN 0 ELSE group[i][ch] + GroupSum(group, i + 1, ch)

\* C16: aggregation mean: whatever the order in which the closures pushed,
\* once grouping has finished every group holds each assigned sample once,
\* and for every cluster with at least one sample the new centroid stored by
\* the aggregation is, per channel, the sum over the cluster's samples
\* divided by their number.
C16_AggregationMean ==
    /\ (pc = "group" /\ GroupingFinished) =>
          \A j \in 1..Len(pixel_groups) :
             /\ Len(pixel_groups[j]) = Cardinality(Members(j - 1))
             /\ \A ch \in {"r", "g", "b"} :
                   GroupSum(pixel_groups[j], 1, ch) = SumChan(Members(j - 1), ch)
             /\ Members(j - 1) # {} =>
                   IsMeanOf(NewCentroid(pixel_groups[j]), Members(j - 1))
    /\ pc = "check" =>
          \A j \in 1..Len(centroids) :
             Members(j - 1) # {} => IsMeanOf(centroids[j], Members(j - 1))

\* grouping has finished with a group whose samples were pushed against the
\* order of their indices and differ in value
C16_Witness ==
    /\ pc = "group"
    /\ GroupingFinished
    /\ \E j \in 1..Len(pixel_groups) : \E a \in 1..N : \E b \in 1..N :
          /\ a < b
          /\ pixels[a] # pixels[b]
          /\ pixel_groups[j] = << pixels[b], pixels[a] >>
          /\ Members(j - 1) = {a, b}

\* least common multiple of 1..n, a common denominator of the centroids of a
\* round (the denominator of a mean divides the size of its cluster)
RECURSIVE LcmUpTo(_)
LcmUpTo(n) == IF n <= 1 THEN 1 ELSE LET l == LcmUpTo(n - 1) IN (l * n) \div GCD(l, n)

\* the squared distance of pixel and centroid c, in units of 1 / LcmUpTo(N)^2
ScaledSquare(pixel, c) ==
    LET f == LcmUpTo(N) \div c.d
    IN  distance(pixel, c).n * f * f

\* the cost of assignment vector a against centroid vector cs: the sum over
\* the samples of the squared distance to the assigned centroid
RECURSIVE Cost(_, _, _)
Cost(a, cs, i) ==
    IF i > N THEN 0 ELSE ScaledSquare(pixels[i], cs[a[i] + 1]) + Cost(a, cs, i + 1)

\* C17: from one round to the next the cost (the sum over the samples of the
\* squared distance to the assigned centroid, each round's assignment measured
\* against the centroids it was computed against) does not increase, also
\* when a cluster lost all its samples and was reset to (0,0,0): moving the
\* centroids to the means does not raise the cost of the old assignment, and
\* the next assignment does not raise it either.
C17_CostNonIncreasing ==
    /\ (pc = "check" /\ Len(snapshot) >= 1) =>
          Cost(assignments, centroids, 1) <= Cost(assignments, snapshot, 1)
    /\ (pc = "assign" /\ rounds >= 2 /\ Len(snapshot) >= 1) =>
          /\ assigned = {} =>
                Cost(AssignmentOf(snapshot, pixels), snapshot, 1)
                   <= Cost(assignments, prev_centroids, 1)
          /\ assigned = 1..N =>
                Cost(assignments, snapshot, 1)
                   <= Cost(AssignmentOf(prev_centroids, pixels), prev_centroids, 1)

\* the second round's assignment is complete and costs strictly less than the
\* first, after a round that emptied a cluster and reset it to (0,0,0)
C17_Witness ==
    /\ pc = "assign"
    /\ rounds = 2
    /\ assigned = 1..N
    /\ N >= 1
    /\ Cost(assignments, snapshot, 1)
          < Cost(AssignmentOf(prev_centroids, pixels), prev_centroids, 1)
    /\ \E j \in 1..Len(snapshot) :
          /\ snapshot[j] = ZeroCentroid
          /\ prev_centroids[j] # ZeroCentroid
          /\ \A i \in 1..N : closest_in_run(pixels[i], prev_centroids) # j - 1

\* every channel of centroid c is a value in [0, 255]
InByteRange(c) ==
    /\ c.d >= 1
    /\ \A ch \in {"r", "g", "b"} : 0 <= c[ch] /\ c[ch] <= 255 * c.d

\* C18: in every reachable state, after initialization and after every
\* aggregation (empty clusters included), every channel of every centroid is
\* within [0, 255]; so are the snapshot the closures read and the previous
\* centroids of the comparison.
C18_CentroidRange ==
    /\ \A j \in 1..Len(centroids) : InByteRange(centroids[j])
    /\ \A j \in 1..Len(snapshot) : InByteRange(snapshot[j])
    /\ \A j \in 1..Len(prev_centroids) : InByteRange(prev_centroids[j])
    /\ \A j \in 1..Len(initial) : InByteRange(initial[j])

\* after an aggregation: a mean of three samples that is not an integer, a
\* cluster reset to (0,0,0), and a channel sum above 255
C18_Witness ==
    /\ pc = "check"
    /\ \E j \in 1..Len(centroids) :
          /\ centroids[j].d = 3
          /\ SumChan(Members(j - 1), "g") > 255
    /\ \E j \in 1..Len(centroids) : Members(j - 1) = {} /\ centroids[j] = ZeroCentroid

\* C19 (state part): when run has returned, self.centroids is the output of
\* the aggregation of the last round run: the mean of each cluster of the
\* last assignment, (0,0,0) for an empty one. That assignment was computed
\* against the snapshot, the round's centroids before the aggregation; after
\* Converged every channel of a final centroid is within the threshold of the
\* snapshot's.
C19_AtReturn ==
    RunReturned =>
        /\ Len(centroids) = k
        /\ \A j \in 1..k :
              IF Members(j - 1) = {}
              THEN centroids[j] = ZeroCentroid
              ELSE IsMeanOf(centroids[j], Members(j - 1))
        /\ \A i \in 1..N : IsLowestNearest(pixels[i], snapshot, assignments[i])
        /\ snapshot = prev_centroids
        /\ outcome = "Converged" =>
              \A j \in 1..k : \A ch \in {"r", "g", "b"} :
                 ThresholdDen * Abs(centroids[j][ch] * snapshot[j].d - snapshot[j][ch] * centroids[j].d)
                    < centroids[j].d * snapshot[j].d

\* C19 (step part): the aggregation stores its output before the comparison,
\* and neither the comparison nor anything after it changes the centroids,
\* also in the round that ends the loop.
C19_StoredBeforeCheck ==
    /\ (pc = "group" /\ pc' = "check") =>
          centroids' = [j \in 1..Len(pixel_groups) |-> NewCentroid(pixel_groups[j])]
    /\ pc \in {"check", "reconstruct", "save"} =>
          (centroids' = centroids /\ assignments' = assignments)

Range(seq) == {seq[p] : p \in DOMAIN seq}

\* the centroid vectors of up to k entries made of the final centroids and of
\* the samples of the image, in every order and with repetitions
CentroidSets ==
    LET V == Range(centroids) \cup {FromPixel(pixels[i]) : i \in 1..N}
    IN  UNION {[1..n -> V] : n \in 0..k}

\* C20: closest_centroid_index and the chooser inlined in the loop of run
\* return the same index for every sample and every centroid vector (the same
\* distance, the lowest index on a tie, 0 for no centroid); so the image
\* written is the one an assignment pass against the final centroids gives.
C20_SameChooser ==
    /\ pc = "reconstruct" =>
          \A cs \in CentroidSets : \A p \in 1..Len(Palette) :
             closest_centroid_index(Palette[p], cs) = closest_in_run(Palette[p], cs)
    /\ pc \in {"save", "done", "panic_save"} =>
          \A i \in 1..N :
             LET c == centroids[closest_in_run(pixels[i], centroids) + 1]
             IN  img[i] = Px(AsU8(c.r, c.d), AsU8(c.g, c.d), AsU8(c.b, c.d))

\* the image has been built from final centroids of which two different ones
\* are equally far from a sample
C20_Witness ==
    /\ pc = "save"
    /\ \E i \in 1..N : \E a \in 1..Len(centroids) : \E b \in 1..Len(centroids) :
          /\ a < b
          /\ centroids[a] # centroids[b]
          /\ closest_centroid_index(pixels[i], centroids) = a - 1
          /\ SameDistance(distance(pixels[i], centroids[a]), distance(pixels[i], centroids[b]))

====
